---- MODULE Spec2Model ----
(***************************************************************************)
(* Student DB Management (src/Ds_Mini_Project/main.py): the enrollment and *)
(* identity-assignment core.  The state is the SQLite store (the students  *)
(* table and the meta row next_prn); the operations are the StudentDB      *)
(* methods register_student, edit_student and delete_student.              *)
(*                                                                         *)
(* Text values are sequences of one-character strings, so that strip(),    *)
(* upper(), lower(), slicing, str(), int() and the f-string formats are    *)
(* computed as the code computes them.                                     *)
(***************************************************************************)
EXTENDS Integers, Sequences, FiniteSets, TLC

VARIABLES
    students,   \* the rows of table students: a set of records
    next_prn,   \* the value of meta row 'next_prn' (TEXT: a digit string)
    issued,     \* history: the PRNs get_next_prn has returned, in order
    nedits,     \* history: how many edit_student calls have succeeded
    pre,        \* history: the database as it was when the last call began
    last,       \* history: the last StudentDB call and its outcome
    call,       \* history: the arguments of the last call that last lacks
    proc        \* the callers that run register_student step by step

vars == <<students, next_prn, issued, nedits, pre, last, call, proc>>

----------------------------------------------------------------------------
(* Bounds of the model *)

\* Capacity of one (branch, division); 70 in the program (main.py:39),
\* scaled down so that full divisions and full branches are reached.
MAX_PER_DIVISION == 2

\* How many PRNs the model lets get_next_prn hand out.
MaxIssue == 3

\* How many edit_student calls the model lets succeed.
MaxEdits == 1

\* How many PRNs are handed out where the calls are made with arguments of
\* every kind.
MaxIssueCalls == 2

(* Program constants *)

\* The initial value of next_prn (main.py:118).
FirstPrn == 1001

DIVISIONS == <<"1", "2", "3">>

COLLEGE_DOMAIN == <<"c","o","l","l","e","g","e",".","e","d","u">>

----------------------------------------------------------------------------
(* Python str operations *)

LowerChars == <<"a","b","c","d","e","f","g","h","i","j","k","l","m",
                "n","o","p","q","r","s","t","u","v","w","x","y","z">>
UpperChars == <<"A","B","C","D","E","F","G","H","I","J","K","L","M",
                "N","O","P","Q","R","S","T","U","V","W","X","Y","Z">>
DigitChars == <<"0","1","2","3","4","5","6","7","8","9">>

Letters == 1..26

\* c.upper() and c.lower() of one character, as tables over the characters
\* the model uses
UpperTable ==
    [c \in {LowerChars[i] : i \in Letters} |->
        UpperChars[CHOOSE i \in Letters : LowerChars[i] = c]]

LowerTable ==
    [c \in {UpperChars[i] : i \in Letters} |->
        LowerChars[CHOOSE i \in Letters : UpperChars[i] = c]]

ToUpperChar(c) == IF c \in DOMAIN UpperTable THEN UpperTable[c] ELSE c

ToLowerChar(c) == IF c \in DOMAIN LowerTable THEN LowerTable[c] ELSE c

Upper(s) == [i \in 1..Len(s) |-> ToUpperChar(s[i])]

Lower(s) == [i \in 1..Len(s) |-> ToLowerChar(s[i])]

SetMin(S) == CHOOSE x \in S : \A y \in S : x <= y

SetMax(S) == CHOOSE x \in S : \A y \in S : x >= y

\* s.strip()
Strip(s) ==
    LET idx == {i \in 1..Len(s) : s[i] # " "}
    IN  IF idx = {} THEN <<>> ELSE SubSeq(s, SetMin(idx), SetMax(idx))

\* s[:n]
Take(s, n) == SubSeq(s, 1, IF Len(s) < n THEN Len(s) ELSE n)

\* str(n) for n >= 0
RECURSIVE IntToStr(_)
IntToStr(n) ==
    IF n < 10 THEN <<DigitChars[n + 1]>>
    ELSE IntToStr(n \div 10) \o <<DigitChars[(n % 10) + 1]>>

DigitValue(c) == (CHOOSE i \in 1..10 : DigitChars[i] = c) - 1

\* int(s) for a digit string s
RECURSIVE StrToInt(_)
StrToInt(s) ==
    IF Len(s) = 0 THEN 0
    ELSE 10 * StrToInt(SubSeq(s, 1, Len(s) - 1)) + DigitValue(s[Len(s)])

\* f"{n:02d}"
Format02d(n) == IF n < 10 THEN <<"0">> \o IntToStr(n) ELSE IntToStr(n)

\* A dict object is written <...>; every other text value is a str.
IsDict(v) == Len(v) > 0 /\ v[1] = "<"

\* json.dumps(v): a dict becomes its JSON text {...}, a str a quoted JSON
\* string
JsonDumps(v) ==
    IF IsDict(v) THEN <<"{">> \o SubSeq(v, 2, Len(v) - 1) \o <<"}">>
    ELSE <<"'">> \o v \o <<"'">>

\* the dict {}
EmptyDict == <<"<", ">">>

\* json.loads(t) of a JSON text: an object {...} becomes a dict, a quoted
\* JSON string the str inside the quotes
JsonLoads(t) ==
    IF t[1] = "{" THEN <<"<">> \o SubSeq(t, 2, Len(t) - 1) \o <<">">>
    ELSE SubSeq(t, 2, Len(t) - 1)

----------------------------------------------------------------------------
(* Utilities (main.py:46-66) *)

\* sha256((salt + password)).hexdigest(): an injective digest
Sha256Hex(x) == <<"#">> \o x

hash_password(password, salt) ==
    [salt |-> salt, pw_hash |-> Sha256Hex(salt \o password)]

\* validate_nonempty raises unless this holds; it returns Strip(s)
IsNonEmpty(s) == Len(s) > 0 /\ Len(Strip(s)) > 0

\* Fault: the code keeps the letter case of the branch as typed.
branch_code_no_upper(branch) ==
    LET code == Take(Strip(branch), 2)
    IN  IF Len(code) < 2 THEN Take(code \o <<"X">>, 2) ELSE code

branch_code(branch) ==
    LET b    == Upper(Strip(branch))
        code == Upper(Take(b, 2))
    IN  IF Len(code) < 2 THEN Take(code \o <<"X">>, 2) ELSE code

----------------------------------------------------------------------------
(* Storage: the SQLite persistence layer (main.py:71-270) *)

\* The database as a value: the students table and the meta row next_prn.
Db(st, np) == [students |-> st, next_prn |-> np]

\* Fault: the counter is written back without the increment.
get_next_prn_no_increment(db) ==
    LET v == StrToInt(db.next_prn)
    IN  [prn |-> IntToStr(v), db |-> Db(db.students, IntToStr(v))]

\* get_next_prn: SELECT the counter, UPDATE it to v + 1, commit, return str(v)
get_next_prn(db) ==
    LET v == StrToInt(db.next_prn)
    IN  [prn |-> IntToStr(v), db |-> Db(db.students, IntToStr(v + 1))]

\* Fault: class_roll declared without UNIQUE.
insert_allowed_no_roll_unique(st, s) ==
    \A r \in st : r.prn # s.prn /\ r.username # s.username

\* The constraints of table students that an INSERT of row s must meet:
\* prn TEXT PRIMARY KEY, class_roll TEXT UNIQUE, username TEXT UNIQUE.
insert_allowed(st, s) ==
    \A r \in st : /\ r.prn # s.prn
                  /\ r.class_roll # s.class_roll
                  /\ r.username # s.username

\* insert_student: the INSERT and the commit (raises IntegrityError when a
\* constraint is violated, and then the table is unchanged)
insert_student(st, s) == st \cup {s}

find_student_by_prn(st, prn) == {r \in st : r.prn = prn}

\* Fault: the username lookup finds nothing.
find_student_by_username_none(st, username) == {}

find_student_by_username(st, username) == {r \in st : r.username = username}

find_student_by_class_roll(st, class_roll) == {r \in st : r.class_roll = class_roll}

\* The row s with the columns of `applied` overwritten; update_student
\* json.dumps the value of column extra (main.py:206-207).
updated_row(s, applied) ==
    [k \in DOMAIN s |->
        IF k \in DOMAIN applied
        THEN IF k = "extra" THEN JsonDumps(applied[k]) ELSE applied[k]
        ELSE s[k]]

\* The constraints an UPDATE of row s to row n must meet.
update_allowed(st, s, n) ==
    \A r \in st \ {s} : /\ r.prn # n.prn
                        /\ r.class_roll # n.class_roll
                        /\ r.username # n.username

\* update_student: UPDATE students SET <columns> WHERE prn = ?
update_student(st, s, applied) == (st \ {s}) \cup {updated_row(s, applied)}

\* Fault: DELETE FROM students, without the WHERE clause.
storage_delete_student_no_where(st, prn) == {}

\* delete_student: DELETE FROM students WHERE prn = ?
storage_delete_student(st, prn) == {r \in st : r.prn # prn}

DivisionSet == {DIVISIONS[i] : i \in 1..Len(DIVISIONS)}

\* count_by_branch_division: SELECT division, COUNT(*) ... WHERE branch = upper
count_by_branch_division(st, branch) ==
    LET b == Upper(branch)
    IN  [d \in DivisionSet |->
            Cardinality({r \in st : r.branch = b /\ r.division = d})]

----------------------------------------------------------------------------
(* StudentDB: the business logic (main.py:275-460) *)

NoDivision == "none"
NoRoll == <<>>
NoRec == [none |-> TRUE]

\* Fault: with no division below capacity, fall back to the last division
\* instead of raising.
_assign_division_last_resort(st, branch) ==
    LET counts == count_by_branch_division(st, branch)
        free   == {i \in 1..Len(DIVISIONS) : counts[DIVISIONS[i]] < MAX_PER_DIVISION}
    IN  IF free = {} THEN DIVISIONS[Len(DIVISIONS)] ELSE DIVISIONS[SetMin(free)]

\* Fault: the divisions are scanned from the last to the first.
_assign_division_reversed(st, branch) ==
    LET counts == count_by_branch_division(st, branch)
        free   == {i \in 1..Len(DIVISIONS) : counts[DIVISIONS[i]] < MAX_PER_DIVISION}
    IN  IF free = {} THEN NoDivision ELSE DIVISIONS[SetMax(free)]

\* Fault: the division with the fewest students (balancing the load).
_assign_division_balanced(st, branch) ==
    LET counts == count_by_branch_division(st, branch)
        free   == {i \in 1..Len(DIVISIONS) : counts[DIVISIONS[i]] < MAX_PER_DIVISION}
        least  == {i \in free : \A j \in free : counts[DIVISIONS[i]] <= counts[DIVISIONS[j]]}
    IN  IF free = {} THEN NoDivision ELSE DIVISIONS[SetMin(least)]

\* _assign_division: the first division below capacity, or the ValueError
\* "All divisions for this branch are full" (NoDivision)
_assign_division(st, branch) ==
    LET counts == count_by_branch_division(st, branch)
        free   == {i \in 1..Len(DIVISIONS) : counts[DIVISIONS[i]] < MAX_PER_DIVISION}
    IN  IF free = {} THEN NoDivision ELSE DIVISIONS[SetMin(free)]

\* Fault: the sequence number is not checked against the capacity.
_generate_class_roll_no_check(st, branch, division) ==
    LET counts  == count_by_branch_division(st, branch)
        current == counts[division] + 1
    IN  branch_code(branch) \o <<division>> \o Format02d(current)

\* Fault: the sequence number is the count, not the count + 1.
_generate_class_roll_off_by_one(st, branch, division) ==
    LET counts  == count_by_branch_division(st, branch)
        current == counts[division]
    IN  IF current > MAX_PER_DIVISION THEN NoRoll
        ELSE branch_code(branch) \o <<division>> \o Format02d(current)

\* _generate_class_roll: code + division + (count + 1) as two digits, or
\* the ValueError "Division ... already full" (NoRoll)
_generate_class_roll(st, branch, division) ==
    LET counts  == count_by_branch_division(st, branch)
        current == counts[division] + 1
    IN  IF current > MAX_PER_DIVISION THEN NoRoll
        ELSE branch_code(branch) \o <<division>> \o Format02d(current)

\* Fault: the names are not lower-cased.
_generate_email_no_lower(first_name, last_name, prn, branch) ==
    LET uname == first_name \o <<".">> \o last_name \o <<".">> \o prn
    IN  uname \o <<"@">> \o Lower(branch) \o <<".">> \o COLLEGE_DOMAIN

_generate_email(first_name, last_name, prn, branch) ==
    LET uname == Lower(first_name) \o <<".">> \o Lower(last_name) \o <<".">> \o prn
    IN  uname \o <<"@">> \o Lower(branch) \o <<".">> \o COLLEGE_DOMAIN

\* The outcome of a call: the database after it, how it ended ("ok" or the
\* exception raised) and the record it returned.
Outcome(db, result, ret) == [db |-> db, result |-> result, ret |-> ret]

register_student(db, username, password, first_name, last_name, branch, extra, salt) ==
    IF ~IsNonEmpty(username) THEN Outcome(db, "ValueError_empty", NoRec)
    ELSE
    LET uname == Lower(Strip(username)) IN
    IF find_student_by_username(db.students, uname) # {}
    THEN Outcome(db, "ValueError_username_exists", NoRec)
    ELSE
    LET g        == get_next_prn(db)
        prn      == g.prn
        db1      == g.db
        pw       == hash_password(password, salt)
        division == _assign_division(db1.students, branch)
    IN
    IF division = NoDivision THEN Outcome(db1, "ValueError_all_full", NoRec)
    ELSE
    LET class_roll == _generate_class_roll(db1.students, branch, division) IN
    IF class_roll = NoRoll THEN Outcome(db1, "ValueError_division_full", NoRec)
    ELSE
    LET student == [prn        |-> prn,
                    class_roll |-> class_roll,
                    username   |-> uname,
                    salt       |-> pw.salt,
                    pw_hash    |-> pw.pw_hash,
                    first_name |-> Strip(first_name),
                    last_name  |-> Strip(last_name),
                    branch     |-> Upper(Strip(branch)),
                    division   |-> division,
                    email      |-> _generate_email(first_name, last_name, prn, branch),
                    extra      |-> JsonDumps(extra)]
    IN
    IF ~insert_allowed(db1.students, student)
    THEN Outcome(db1, "IntegrityError", NoRec)
    ELSE Outcome(Db(insert_student(db1.students, student), db1.next_prn), "ok", student)

\* Fault: prn and username are let through as well.
allowed_with_identity ==
    {"first_name", "last_name", "email", "extra", "branch", "prn", "username"}

\* The keys edit_student lets through (main.py:365).
allowed == {"first_name", "last_name", "email", "extra", "branch"}

\* f restricted to the keys in K
Restrict(f, K) == [k \in (DOMAIN f) \cap K |-> f[k]]

\* f with the entries of g added or overwritten
Override(f, g) ==
    [k \in (DOMAIN f) \cup (DOMAIN g) |-> IF k \in DOMAIN g THEN g[k] ELSE f[k]]

\* editor_branch = None, the default: no editor scope is given.
NoEditor == <<"None">>

\* `if editor_branch`: None and the empty str are false.
Truthy(v) == v # NoEditor /\ Len(v) > 0

\* The tail of edit_student (main.py:380-384): extra to JSON, the UPDATE,
\* the row read back.
edit_apply(db, s, applied) ==
    LET applied2 == IF "extra" \in DOMAIN applied /\ IsDict(applied["extra"])
                    THEN Override(applied, [extra |-> JsonDumps(applied["extra"])])
                    ELSE applied
        n        == updated_row(s, applied2)
    IN  IF DOMAIN applied2 = {} THEN Outcome(db, "OperationalError", NoRec)
        ELSE IF ~update_allowed(db.students, s, n)
        THEN Outcome(db, "IntegrityError", NoRec)
        ELSE Outcome(Db(update_student(db.students, s, applied2), db.next_prn), "ok", n)

\* Fault: a branch change keeps the old division and class roll.
edit_student_keeps_seat(db, prn, updates, editor_branch) ==
    LET found == find_student_by_prn(db.students, prn) IN
    IF found = {} THEN Outcome(db, "ValueError_not_found", NoRec)
    ELSE
    LET s == CHOOSE r \in found : TRUE IN
    IF Truthy(editor_branch) /\ Upper(s.branch) # Upper(editor_branch)
    THEN Outcome(db, "PermissionError", NoRec)
    ELSE
    LET applied == Restrict(updates, allowed) IN
    IF "branch" \in DOMAIN applied
    THEN edit_apply(db, s, Override(applied, [branch |-> Upper(applied["branch"])]))
    ELSE edit_apply(db, s, applied)

\* Fault: when the new branch is full, the other fields of the update are
\* written before the error is raised.
edit_student_partial(db, prn, updates, editor_branch) ==
    LET found == find_student_by_prn(db.students, prn) IN
    IF found = {} THEN Outcome(db, "ValueError_not_found", NoRec)
    ELSE
    LET s == CHOOSE r \in found : TRUE IN
    IF Truthy(editor_branch) /\ Upper(s.branch) # Upper(editor_branch)
    THEN Outcome(db, "PermissionError", NoRec)
    ELSE
    LET applied == Restrict(updates, allowed) IN
    IF "branch" \in DOMAIN applied
    THEN
        LET new_branch == Upper(applied["branch"])
            new_div    == _assign_division(db.students, new_branch)
            rest       == Restrict(applied, allowed \ {"branch"})
        IN
        IF new_div = NoDivision
        THEN Outcome(IF DOMAIN rest = {} THEN db ELSE edit_apply(db, s, rest).db,
                     "ValueError_all_full", NoRec)
        ELSE
        LET new_roll == _generate_class_roll(db.students, new_branch, new_div) IN
        IF new_roll = NoRoll THEN Outcome(db, "ValueError_division_full", NoRec)
        ELSE edit_apply(db, s, Override(applied, [branch     |-> new_branch,
                                                  division   |-> new_div,
                                                  class_roll |-> new_roll]))
    ELSE edit_apply(db, s, applied)

edit_student(db, prn, updates, editor_branch) ==
    LET found == find_student_by_prn(db.students, prn) IN
    IF found = {} THEN Outcome(db, "ValueError_not_found", NoRec)
    ELSE
    LET s == CHOOSE r \in found : TRUE IN
    IF Truthy(editor_branch) /\ Upper(s.branch) # Upper(editor_branch)
    THEN Outcome(db, "PermissionError", NoRec)
    ELSE
    LET applied == Restrict(updates, allowed) IN
    IF "branch" \in DOMAIN applied
    THEN
        LET new_branch == Upper(applied["branch"])
            new_div    == _assign_division(db.students, new_branch)
        IN
        IF new_div = NoDivision THEN Outcome(db, "ValueError_all_full", NoRec)
        ELSE
        LET new_roll == _generate_class_roll(db.students, new_branch, new_div) IN
        IF new_roll = NoRoll THEN Outcome(db, "ValueError_division_full", NoRec)
        ELSE edit_apply(db, s, Override(applied, [branch     |-> new_branch,
                                                  division   |-> new_div,
                                                  class_roll |-> new_roll]))
    ELSE edit_apply(db, s, applied)

delete_student(db, prn, editor_branch) ==
    LET found == find_student_by_prn(db.students, prn) IN
    IF found = {} THEN Outcome(db, "ValueError_not_found", NoRec)
    ELSE
    LET s == CHOOSE r \in found : TRUE IN
    IF Truthy(editor_branch) /\ Upper(s.branch) # Upper(editor_branch)
    THEN Outcome(db, "PermissionError", NoRec)
    ELSE Outcome(Db(storage_delete_student(db.students, prn), db.next_prn), "ok", NoRec)

\* Fault: only pw_hash is removed from the profile.
get_student_profile_with_salt(db, key) ==
    LET by_prn == find_student_by_prn(db.students, key)
        found  == IF by_prn # {} THEN by_prn
                  ELSE find_student_by_class_roll(db.students, key)
    IN  IF found = {} THEN Outcome(db, "ok", NoRec)
        ELSE LET s == CHOOSE r \in found : TRUE
             IN  Outcome(db, "ok", [k \in (DOMAIN s) \ {"pw_hash"} |-> s[k]])

\* get_student_profile: the row found by prn, else by class roll, without
\* pw_hash and salt and with extra parsed; None (NoRec) when there is none.
\* It writes nothing.
get_student_profile(db, key) ==
    LET by_prn == find_student_by_prn(db.students, key)
        found  == IF by_prn # {} THEN by_prn
                  ELSE find_student_by_class_roll(db.students, key)
    IN  IF found = {} THEN Outcome(db, "ok", NoRec)
        ELSE LET s    == CHOOSE r \in found : TRUE
                 text == IF Len(s.extra) = 0 THEN <<"{", "}">> ELSE s.extra
             IN  Outcome(db, "ok",
                         [k \in (DOMAIN s) \ {"pw_hash", "salt"} |->
                             IF k = "extra" THEN JsonLoads(text) ELSE s[k]])

\* The branch teacher_register stores (main.py:344); a teacher's edits and
\* deletes are made with editor_branch = t["branch"].
teacher_branch(branch) == Upper(Strip(branch))

----------------------------------------------------------------------------
(* The inputs the calls are made with *)

Ann == <<"A","n","n">>
Bo  == <<"B","o">>
Lee == <<"L","e","e">>

FirstNames == {Ann}
LastNames  == {Lee}
Passwords  == {<<"p","w">>}
\* uuid4().hex: the salt hash_password draws
Salts      == {<<"5","a">>}

\* Branches as a caller types them: stripped (the flows strip what they
\* read, main.py:518 and 606), in any letter case.
BranchInputs == {<<"c","s","e">>, <<"E","c","e">>}

\* A username no student has yet (one per PRN about to be issued), typed
\* in upper case with a trailing blank.
FreshUsername == <<"U">> \o next_prn \o <<" ">>

\* Usernames tried: a fresh one, a stored one in upper case, and blank ones.
UsernameInputs ==
    {FreshUsername} \cup {Upper(r.username) : r \in students} \cup {<<>>, <<" ">>}

\* PRNs tried by edit and delete: every PRN issued so far (stored or
\* deleted) and the one not issued yet.
PrnInputs == {issued[i] : i \in 1..Len(issued)} \cup {next_prn}

EditorInputs == {NoEditor, <<"c","s","e">>}

Mail == <<"x","@","y">>

\* The updates maps edit_student is called with: branch transfers, a name
\* change and an email override.
TransferInputs == {[branch |-> b] : b \in BranchInputs}

UpdateInputs == {[first_name |-> Bo], [email |-> Mail]} \cup TransferInputs


----------------------------------------------------------------------------
(* The state machine *)

\* arg: the username and branch register_student was given, the updates
\* edit_student was given.
\* The outcomes of register_student that come after get_next_prn ran.
PrnConsumed ==
    {"ok", "ValueError_all_full", "ValueError_division_full", "IntegrityError"}

Call(op, arg, out) ==
    [op |-> op, arg |-> arg, result |-> out.result, ret |-> out.ret]

\* The prn a call was given and the editor_branch it was made with; NoCall
\* where that is not recorded.
NoCall == [prn |-> <<>>, editor |-> NoEditor]

\* The callers of the step-by-step register_student, before they call.
Procs == {1, 2}

Idle == [pc |-> "idle", username |-> <<>>, v |-> <<>>, prn |-> <<>>,
         division |-> NoDivision, class_roll |-> NoRoll, result |-> "none"]

NoProcs == [p \in Procs |-> Idle]

Init ==
    /\ students = {}
    /\ next_prn = IntToStr(FirstPrn)
    /\ issued = <<>>
    /\ nedits = 0
    /\ pre = Db({}, IntToStr(FirstPrn))
    /\ last = [op |-> "init", arg |-> <<>>, result |-> "ok", ret |-> NoRec]
    /\ call = NoCall
    /\ proc = NoProcs

RegisterStudent(username, password, first_name, last_name, branch, salt) ==
    LET out == register_student(Db(students, next_prn), username, password,
                                first_name, last_name, branch, EmptyDict, salt)
    IN  /\ students' = out.db.students
        /\ next_prn' = out.db.next_prn
        /\ issued' = IF out.result \in PrnConsumed
                   THEN Append(issued, get_next_prn(Db(students, next_prn)).prn)
                   ELSE issued
        /\ nedits' = nedits
        /\ pre' = Db(students, next_prn)
        /\ last' = Call("register", [username |-> username, branch |-> branch], out)

EditStudent(prn, updates, editor_branch) ==
    LET out == edit_student(Db(students, next_prn), prn, updates, editor_branch)
    IN  /\ students' = out.db.students
        /\ next_prn' = out.db.next_prn
        /\ issued' = issued
        /\ nedits' = IF out.result = "ok" THEN nedits + 1 ELSE nedits
        /\ pre' = Db(students, next_prn)
        /\ last' = Call("edit", updates, out)

DeleteStudent(prn, editor_branch) ==
    LET out == delete_student(Db(students, next_prn), prn, editor_branch)
    IN  /\ students' = out.db.students
        /\ next_prn' = out.db.next_prn
        /\ issued' = issued
        /\ nedits' = nedits
        /\ pre' = Db(students, next_prn)
        /\ last' = Call("delete", <<>>, out)

\* The model stops issuing PRNs and editing at its bounds.
CanIssue == StrToInt(next_prn) < FirstPrn + MaxIssue

CanEdit == nedits < MaxEdits

Register ==
    /\ CanIssue
    /\ \E u \in UsernameInputs, pw \in Passwords, fn \in FirstNames,
       ln \in LastNames, b \in BranchInputs, salt \in Salts :
        RegisterStudent(u, pw, fn, ln, b, salt)
    /\ UNCHANGED <<call, proc>>

Edit ==
    /\ CanEdit
    /\ \E p \in PrnInputs, up \in UpdateInputs, e \in EditorInputs :
        EditStudent(p, up, e)
    /\ UNCHANGED <<call, proc>>

Delete ==
    /\ \E p \in PrnInputs, e \in EditorInputs : DeleteStudent(p, e)
    /\ UNCHANGED <<call, proc>>

Next == Register \/ Edit \/ Delete

Spec == Init /\ [][Next]_vars

----------------------------------------------------------------------------
(* The same operations, started from a store in which branch ECE is full *)

\* The number of students that fill one branch.
FullCount == Len(DIVISIONS) * MAX_PER_DIVISION

\* The database after k successful registrations into ECE, from an empty one.
RECURSIVE Filled(_)
Filled(k) ==
    IF k = 0 THEN Outcome(Db({}, IntToStr(FirstPrn)), "ok", NoRec)
    ELSE LET db == Filled(k - 1).db
         IN  register_student(db, <<"U">> \o db.next_prn \o <<" ">>, <<"p","w">>,
                              Ann, Lee, <<"E","c","e">>, EmptyDict, <<"5","a">>)

InitFull ==
    /\ students = Filled(FullCount).db.students
    /\ next_prn = Filled(FullCount).db.next_prn
    /\ issued = [i \in 1..FullCount |-> Filled(i).ret.prn]
    /\ nedits = 0
    /\ pre = Filled(FullCount - 1).db
    /\ last = Call("register",
                   [username |-> <<"U">> \o Filled(FullCount - 1).db.next_prn \o <<" ">>,
                    branch   |-> <<"E","c","e">>],
                   Filled(FullCount))
    /\ call = NoCall
    /\ proc = NoProcs

CanIssueFull == StrToInt(next_prn) < FirstPrn + FullCount + MaxIssue

\* PRNs tried by edit and delete here: the first student's, those issued
\* since the branch was filled, and the one not issued yet.
PrnInputsFull ==
    {issued[i] : i \in {1} \cup (FullCount + 1)..Len(issued)} \cup {next_prn}

RegisterFull ==
    /\ CanIssueFull
    /\ \E u \in UsernameInputs, pw \in Passwords, fn \in FirstNames,
       ln \in LastNames, b \in BranchInputs, salt \in Salts :
        RegisterStudent(u, pw, fn, ln, b, salt)
    /\ UNCHANGED <<call, proc>>

EditFull ==
    /\ CanEdit
    /\ \E p \in PrnInputsFull, up \in TransferInputs, e \in EditorInputs :
        EditStudent(p, up, e)
    /\ UNCHANGED <<call, proc>>

DeleteFull ==
    /\ \E p \in PrnInputsFull, e \in EditorInputs : DeleteStudent(p, e)
    /\ UNCHANGED <<call, proc>>

NextFull == RegisterFull \/ EditFull \/ DeleteFull

SpecFull == InitFull /\ [][NextFull]_vars

----------------------------------------------------------------------------
(* Transfers into and out of the full branch, with other fields in the same
   update *)

\* The editors of these transfers: none, and a teacher of each branch.
EditorInputsFullCalls ==
    {NoEditor} \cup {teacher_branch(b) : b \in BranchInputs}

\* Transfers that carry a new first name as well.
TransferInputsNamed ==
    {[branch |-> b, first_name |-> Bo] : b \in BranchInputs}

CanIssueFullCalls ==
    StrToInt(next_prn) < FirstPrn + FullCount + MaxIssueCalls

RegisterFullCalls ==
    /\ CanIssueFullCalls
    /\ \E pw \in Passwords, fn \in FirstNames, ln \in LastNames,
          b \in BranchInputs, salt \in Salts :
        RegisterStudent(FreshUsername, pw, fn, ln, b, salt)
    /\ call' = NoCall
    /\ UNCHANGED proc

EditFullCalls ==
    /\ CanEdit
    /\ \E p \in PrnInputsFull, up \in TransferInputsNamed, e \in EditorInputsFullCalls :
        /\ EditStudent(p, up, e)
        /\ call' = [prn |-> p, editor |-> e]
    /\ UNCHANGED proc

DeleteFullCalls ==
    /\ \E p \in PrnInputsFull :
        /\ DeleteStudent(p, NoEditor)
        /\ call' = [prn |-> p, editor |-> NoEditor]
    /\ UNCHANGED proc

NextFullCalls == RegisterFullCalls \/ EditFullCalls \/ DeleteFullCalls

SpecFullCalls == InitFull /\ [][NextFullCalls]_vars

----------------------------------------------------------------------------
(* Two branches whose names begin with the same two letters *)

BranchInputsCodes == {<<"c","s","e">>, <<"c","s","d">>}

RegisterCodes ==
    /\ CanIssue
    /\ \E u \in UsernameInputs, pw \in Passwords, fn \in FirstNames,
          ln \in LastNames, b \in BranchInputsCodes, salt \in Salts :
        RegisterStudent(u, pw, fn, ln, b, salt)
    /\ UNCHANGED <<call, proc>>

DeleteCodes ==
    /\ \E p \in PrnInputs : DeleteStudent(p, NoEditor)
    /\ UNCHANGED <<call, proc>>

NextCodes == RegisterCodes \/ DeleteCodes

SpecCodes == Init /\ [][NextCodes]_vars

----------------------------------------------------------------------------
(* The calls with the arguments the methods accept: editors of every branch,
   updates with keys of every kind, and profile reads *)

\* The branches teachers register with: teacher_register does not validate
\* the branch, so it may be blank.
TeacherBranchInputs == {<<"c","s","e">>, <<"E","c","e">>, <<" ">>}

EditorInputsCalls ==
    {NoEditor} \cup {teacher_branch(b) : b \in TeacherBranchInputs}

\* A branch transfer, updates with keys outside the allow-list, alone and
\* next to allowed ones, and an update of extra.
UpdateInputsCalls ==
    { [branch |-> <<"E","c","e">>], [prn |-> <<"9">>, username |-> <<"z">>, first_name |-> Bo],
      [division |-> "3", class_roll |-> <<"Z">>, salt |-> <<"0">>, pw_hash |-> <<"0">>],
      [extra |-> <<"<", "k", ">">>, last_name |-> Bo] }

\* The keys a profile is asked for: PRNs and the class rolls in the table.
KeyInputs == PrnInputs \cup {r.class_roll : r \in students}

GetStudentProfile(key) ==
    LET out == get_student_profile(Db(students, next_prn), key)
    IN  /\ students' = out.db.students
        /\ next_prn' = out.db.next_prn
        /\ issued' = issued
        /\ nedits' = nedits
        /\ pre' = Db(students, next_prn)
        /\ last' = Call("profile", key, out)

CanIssueCalls == StrToInt(next_prn) < FirstPrn + MaxIssueCalls

RegisterCalls ==
    /\ CanIssueCalls
    /\ \E pw \in Passwords, fn \in FirstNames, ln \in LastNames,
          b \in BranchInputs, salt \in Salts :
        RegisterStudent(FreshUsername, pw, fn, ln, b, salt)
    /\ call' = NoCall
    /\ UNCHANGED proc

EditCalls ==
    /\ CanEdit
    /\ \E p \in PrnInputs, up \in UpdateInputsCalls, e \in EditorInputsCalls :
        /\ EditStudent(p, up, e)
        /\ call' = [prn |-> p, editor |-> e]
    /\ UNCHANGED proc

DeleteCalls ==
    /\ \E p \in PrnInputs, e \in EditorInputsCalls :
        /\ DeleteStudent(p, e)
        /\ call' = [prn |-> p, editor |-> e]
    /\ UNCHANGED proc

ProfileCalls ==
    /\ \E key \in KeyInputs : GetStudentProfile(key)
    /\ call' = NoCall
    /\ UNCHANGED proc

NextCalls == RegisterCalls \/ EditCalls \/ DeleteCalls \/ ProfileCalls

SpecCalls == Init /\ [][NextCalls]_vars

----------------------------------------------------------------------------
(* register_student called directly, with text fields that may be blank *)

\* The password, names and branch of a call: all filled in, or one of them
\* empty or blank.
FieldInputs ==
    LET full == [password |-> <<"p","w">>, first_name |-> Ann,
                 last_name |-> Lee, branch |-> <<"c","s","e">>]
    IN  { full,
          [full EXCEPT !.password = <<>>],
          [full EXCEPT !.first_name = <<" ">>],
          [full EXCEPT !.last_name = <<>>],
          [full EXCEPT !.branch = <<" ">>] }

RegisterFields ==
    /\ CanIssue
    /\ \E u \in UsernameInputs, f \in FieldInputs, salt \in Salts :
        /\ RegisterStudent(u, f.password, f.first_name, f.last_name, f.branch, salt)
        /\ call' = f
    /\ UNCHANGED proc

DeleteFields ==
    /\ \E p \in PrnInputs : DeleteStudent(p, NoEditor)
    /\ call' = NoCall
    /\ UNCHANGED proc

NextFields == RegisterFields \/ DeleteFields

SpecFields == Init /\ [][NextFields]_vars

----------------------------------------------------------------------------
(* Two callers, each on a connection of its own to one store, run
   register_student at the same time.  Every SQL statement is a step of its
   own: nothing in the code holds a lock or a transaction from one statement
   to the next. *)

ConcBranch == <<"E","c","e">>

ConcUsernames == {<<"p">>, <<"Q">>}

\* The store the callers start on: k students registered into ECE, and
\* perhaps the first of them deleted since.
InitConc ==
    \E k \in 0..FullCount, gone \in BOOLEAN :
        /\ students = IF gone
                      THEN storage_delete_student(Filled(k).db.students,
                                                  IntToStr(FirstPrn))
                      ELSE Filled(k).db.students
        /\ next_prn = Filled(k).db.next_prn
        /\ issued = [i \in 1..k |-> Filled(i - 1).db.next_prn]
        /\ nedits = 0
        /\ pre = Db(students, next_prn)
        /\ last = [op |-> "init", arg |-> <<>>, result |-> "ok", ret |-> NoRec]
        /\ call = NoCall
        /\ proc = NoProcs

\* register_student up to the username lookup (main.py:302-305)
BeginRegister(p, username) ==
    /\ proc[p].pc = "idle"
    /\ proc' = [proc EXCEPT ![p] =
          IF ~IsNonEmpty(username)
          THEN [@ EXCEPT !.pc = "done", !.result = "ValueError_empty"]
          ELSE IF find_student_by_username(students, Lower(Strip(username))) # {}
          THEN [@ EXCEPT !.pc = "done", !.result = "ValueError_username_exists"]
          ELSE [@ EXCEPT !.pc = "prn_read", !.username = Lower(Strip(username))]]
    /\ UNCHANGED <<students, next_prn, issued, nedits, pre, last, call>>

\* get_next_prn: the SELECT (main.py:183-184)
ReadPrn(p) ==
    /\ proc[p].pc = "prn_read"
    /\ proc' = [proc EXCEPT ![p] = [@ EXCEPT !.pc = "prn_write", !.v = next_prn]]
    /\ UNCHANGED <<students, next_prn, issued, nedits, pre, last, call>>

\* get_next_prn: the UPDATE, the commit and the return (main.py:185-187)
WritePrn(p) ==
    /\ proc[p].pc = "prn_write"
    /\ next_prn' = IntToStr(StrToInt(proc[p].v) + 1)
    /\ issued' = Append(issued, IntToStr(StrToInt(proc[p].v)))
    /\ proc' = [proc EXCEPT ![p] =
          [@ EXCEPT !.pc = "assign", !.prn = IntToStr(StrToInt(proc[p].v))]]
    /\ UNCHANGED <<students, nedits, pre, last, call>>

\* _assign_division (main.py:308)
AssignDivision(p) ==
    /\ proc[p].pc = "assign"
    /\ LET d == _assign_division(students, ConcBranch)
       IN  proc' = [proc EXCEPT ![p] =
             IF d = NoDivision
             THEN [@ EXCEPT !.pc = "done", !.result = "ValueError_all_full"]
             ELSE [@ EXCEPT !.pc = "roll", !.division = d]]
    /\ UNCHANGED <<students, next_prn, issued, nedits, pre, last, call>>

\* _generate_class_roll (main.py:309)
GenerateClassRoll(p) ==
    /\ proc[p].pc = "roll"
    /\ LET r == _generate_class_roll(students, ConcBranch, proc[p].division)
       IN  proc' = [proc EXCEPT ![p] =
             IF r = NoRoll
             THEN [@ EXCEPT !.pc = "done", !.result = "ValueError_division_full"]
             ELSE [@ EXCEPT !.pc = "insert", !.class_roll = r]]
    /\ UNCHANGED <<students, next_prn, issued, nedits, pre, last, call>>

\* The record register_student builds (main.py:310-323), as insert_student
\* writes it.
new_student(prn, class_roll, username, pw, first_name, last_name, branch, division) ==
    [prn        |-> prn,
     class_roll |-> class_roll,
     username   |-> username,
     salt       |-> pw.salt,
     pw_hash    |-> pw.pw_hash,
     first_name |-> Strip(first_name),
     last_name  |-> Strip(last_name),
     branch     |-> Upper(Strip(branch)),
     division   |-> division,
     email      |-> _generate_email(first_name, last_name, prn, branch),
     extra      |-> JsonDumps(EmptyDict)]

\* insert_student (main.py:324)
InsertStudent(p) ==
    /\ proc[p].pc = "insert"
    /\ LET s == new_student(proc[p].prn, proc[p].class_roll, proc[p].username,
                            hash_password(<<"p","w">>, <<"5","a">>),
                            Ann, Lee, ConcBranch, proc[p].division)
       IN  IF insert_allowed(students, s)
           THEN /\ students' = insert_student(students, s)
                /\ proc' = [proc EXCEPT ![p] = [@ EXCEPT !.pc = "done", !.result = "ok"]]
           ELSE /\ students' = students
                /\ proc' = [proc EXCEPT ![p] =
                      [@ EXCEPT !.pc = "done", !.result = "IntegrityError"]]
    /\ UNCHANGED <<next_prn, issued, nedits, pre, last, call>>

BeginConc == \E p \in Procs, u \in ConcUsernames : BeginRegister(p, u)
ReadPrnConc == \E p \in Procs : ReadPrn(p)
WritePrnConc == \E p \in Procs : WritePrn(p)
AssignConc == \E p \in Procs : AssignDivision(p)
RollConc == \E p \in Procs : GenerateClassRoll(p)
InsertConc == \E p \in Procs : InsertStudent(p)

NextConc ==
    BeginConc \/ ReadPrnConc \/ WritePrnConc \/ AssignConc \/ RollConc \/ InsertConc

SpecConc == InitConc /\ [][NextConc]_vars

----------------------------------------------------------------------------
(* Registrations only, from an empty store: no deletion, no transfer *)

\* Enough PRNs to fill one branch and to register once more.
CanIssueFill == StrToInt(next_prn) <= FirstPrn + FullCount

RegisterFill ==
    /\ CanIssueFill
    /\ \E u \in UsernameInputs, pw \in Passwords, fn \in FirstNames,
          ln \in LastNames, b \in BranchInputs, salt \in Salts :
        RegisterStudent(u, pw, fn, ln, b, salt)
    /\ UNCHANGED <<call, proc>>

NextFill == RegisterFill

SpecFill == Init /\ [][NextFill]_vars

----------------------------------------------------------------------------
(* Vocabulary of the properties, stated on the table itself *)

Prns(st) == {r.prn : r \in st}

\* How many students of branch b sit in division d.
Count(st, b, d) == Cardinality({r \in st : r.branch = b /\ r.division = d})

\* Every division of branch b is at capacity.
BranchFull(st, b) == \A d \in DivisionSet : Count(st, b, d) >= MAX_PER_DIVISION

\* d is the earliest division, in the order of DIVISIONS, in which branch b
\* has fewer than MAX_PER_DIVISION students.
EarliestBelow(st, b, d) ==
    \E i \in 1..Len(DIVISIONS) :
        /\ DIVISIONS[i] = d
        /\ Count(st, b, d) < MAX_PER_DIVISION
        /\ \A j \in 1..(i - 1) : Count(st, b, DIVISIONS[j]) >= MAX_PER_DIVISION

TwoDigits(n) == <<DigitChars[(n \div 10) + 1], DigitChars[(n % 10) + 1]>>

\* The class roll of sequence number n in division d of branch b (b in
\* upper case, two letters or more).
ExpectedRoll(b, d, n) == <<b[1], b[2], d>> \o TwoDigits(n)

\* lower(first).lower(last).prn@lower(branch).college.edu
ExpectedEmail(first_name, last_name, prn, branch) ==
    Lower(first_name) \o <<".">> \o Lower(last_name) \o <<".">> \o prn \o <<"@">>
        \o Lower(branch) \o <<".","c","o","l","l","e","g","e",".","e","d","u">>

RegisteredOk == last.op = "register" /\ last.result = "ok"
EditedOk     == last.op = "edit" /\ last.result = "ok"
DeletedOk    == last.op = "delete" /\ last.result = "ok"

\* The edited student's row before the edit (when EditedOk).
Old == CHOOSE r \in pre.students : r.prn = last.ret.prn

\* The deleted row (when DeletedOk).
Deleted == CHOOSE r \in pre.students : r \notin students

\* The last call was an edit that moved a student to a different branch.
Transferred ==
    /\ EditedOk
    /\ "branch" \in DOMAIN last.arg
    /\ Upper(last.arg["branch"]) # Old.branch

\* The row an edit or delete was aimed at, as it was before the call (when
\* call.prn was stored).
Target == CHOOSE r \in pre.students : r.prn = call.prn

\* r is the k-th registrant of its branch among the stored students: PRNs
\* are issued in increasing order.
Rank(r) ==
    Cardinality({q \in students :
                    q.branch = r.branch /\ StrToInt(q.prn) <= StrToInt(r.prn)})

\* The last call was an edit or delete of a stored student that passed the
\* branch check.
Authorized ==
    /\ call.prn \in Prns(pre.students)
    /\ ~Truthy(call.editor) \/ Upper(call.editor) = Upper(Target.branch)

\* The username u is non-blank and no student in st has it.
UsableUsername(st, u) ==
    /\ IsNonEmpty(u)
    /\ \A r \in st : r.username # Lower(Strip(u))

----------------------------------------------------------------------------
(* C1..C10 *)

\* C1: PRNs are issued in strictly increasing order, so every PRN a
\* successful register_student returns is greater than every PRN issued
\* before it; no two stored students share a PRN, every stored PRN was
\* issued exactly once (a deleted student's PRN is never issued again), and
\* next_prn never decreases.
C1_PrnsStrictlyIncrease ==
    /\ \A i, j \in 1..Len(issued) :
          i < j => StrToInt(issued[i]) < StrToInt(issued[j])
    /\ \A r \in students : \E i \in 1..Len(issued) : issued[i] = r.prn
    /\ \A r1, r2 \in students : r1.prn = r2.prn => r1 = r2
    /\ RegisteredOk => last.ret.prn = issued[Len(issued)]
    /\ \A i \in 1..Len(issued) : StrToInt(issued[i]) < StrToInt(next_prn)
    /\ StrToInt(next_prn) >= StrToInt(pre.next_prn)

\* A registration succeeds after an edit and after an earlier PRN has left
\* the table.
C1_Witness ==
    /\ RegisteredOk
    /\ nedits > 0
    /\ \E i \in 1..Len(issued) : issued[i] \notin Prns(students)

\* C2: no two stored students have the same class_roll.
C2_ClassRollUnique ==
    \A r1, r2 \in students : r1.class_roll = r2.class_roll => r1 = r2

\* A registration computed a class roll that a stored student holds, and
\* was rejected.
C2_Witness ==
    /\ last.op = "register"
    /\ last.result = "IntegrityError"
    /\ \E r \in students :
          /\ r.branch = Upper(last.arg.branch)
          /\ r.class_roll = ExpectedRoll(r.branch, r.division,
                                         Count(pre.students, r.branch, r.division) + 1)

\* C3: no (branch, division) ever holds more than MAX_PER_DIVISION students.
C3_CapacityBound ==
    \A r \in students : Count(students, r.branch, r.division) <= MAX_PER_DIVISION

\* Division 1 of a branch is at capacity and the branch has spilled into
\* division 2, after an edit.
C3_Witness ==
    /\ nedits > 0
    /\ \E r \in students :
          /\ Count(students, r.branch, DIVISIONS[1]) = MAX_PER_DIVISION
          /\ Count(students, r.branch, DIVISIONS[2]) >= 1

\* C4: when a student has just been deleted from a (branch, division) and the
\* next call registers a student (usable username) into that branch, and the
\* allocator picks that division, the registration succeeds with the deleted
\* student's class roll.
C4_FreedSequenceReused ==
    [][ ( /\ DeletedOk
          /\ last'.op = "register"
          /\ UsableUsername(students, last'.arg.username)
          /\ Upper(last'.arg.branch) = Deleted.branch
          /\ EarliestBelow(students, Deleted.branch, Deleted.division) )
        => ( /\ last'.result = "ok"
             /\ last'.ret.class_roll = Deleted.class_roll ) ]_vars

\* C5: a register_student that fails leaves the table and next_prn as they
\* were.
C5_FailedRegisterChangesNothing ==
    (last.op = "register" /\ last.result # "ok")
        => (students = pre.students /\ next_prn = pre.next_prn)

\* C6: a register_student (usable username) into a branch whose divisions
\* are all at capacity fails with "All divisions for this branch are full",
\* and the table, hence every per-division count, is unchanged; with a blank
\* or taken username it fails earlier, and never succeeds.
C6_FullBranchRejects ==
    (last.op = "register" /\ BranchFull(pre.students, Upper(last.arg.branch)))
        => /\ students = pre.students
           /\ last.result # "ok"
           /\ UsableUsername(pre.students, last.arg.username)
                 => last.result = "ValueError_all_full"

C6_Witness ==
    /\ last.op = "register"
    /\ BranchFull(pre.students, Upper(last.arg.branch))
    /\ UsableUsername(pre.students, last.arg.username)
    /\ last.result = "ValueError_all_full"
    /\ nedits > 0

\* C7: a successful register_student puts the student in the earliest
\* division of its branch that was below capacity; with division 1 at
\* capacity - 1 and divisions 2 and 3 empty, that is division 1.
C7_EarliestDivision ==
    RegisteredOk =>
        /\ last.ret.branch = Upper(last.arg.branch)
        /\ last.ret \in students
        /\ EarliestBelow(pre.students, last.ret.branch, last.ret.division)
        /\ ( /\ Count(pre.students, last.ret.branch, "1") = MAX_PER_DIVISION - 1
             /\ Count(pre.students, last.ret.branch, "2") = 0
             /\ Count(pre.students, last.ret.branch, "3") = 0 )
           => last.ret.division = "1"

\* Division 1 held capacity - 1 students (at least one), 2 and 3 none, and
\* the registrant got division 1.
C7_Witness ==
    /\ RegisteredOk
    /\ Count(pre.students, last.ret.branch, "1") = MAX_PER_DIVISION - 1
    /\ Count(pre.students, last.ret.branch, "1") >= 1
    /\ Count(pre.students, last.ret.branch, "2") = 0
    /\ Count(pre.students, last.ret.branch, "3") = 0
    /\ last.ret.division = "1"

\* C8: when a student has just been transferred out of a branch that was
\* full, the next register_student (usable username) into that branch
\* succeeds.
C8_SeatFreedByTransfer ==
    [][ ( /\ Transferred
          /\ BranchFull(pre.students, Old.branch)
          /\ last'.op = "register"
          /\ Upper(last'.arg.branch) = Old.branch
          /\ UsableUsername(students, last'.arg.username) )
        => last'.result = "ok" ]_vars

\* C9: a successful edit that changes the branch stores the new branch
\* (upper case), the earliest division of the new branch that was below
\* capacity before the edit, and the class roll code + division + (that
\* division's count before the edit + 1) as two digits; prn and username are
\* unchanged.
C9_TransferReallocates ==
    Transferred =>
        LET n == last.ret
            c == Count(pre.students, n.branch, n.division)
        IN  /\ n.branch = Upper(last.arg["branch"])
            /\ EarliestBelow(pre.students, n.branch, n.division)
            /\ n.class_roll = ExpectedRoll(n.branch, n.division, c + 1)
            /\ n.prn = Old.prn
            /\ n.username = Old.username
            /\ students = (pre.students \ {Old}) \cup {n}

\* A transfer into a branch that already had students.
C9_Witness ==
    /\ Transferred
    /\ \E r \in pre.students : r.branch = last.ret.branch
    /\ last.ret.class_roll # Old.class_roll

\* C10 as stated: the email is derive_email of the values at the most recent
\* allocation, so a transfer leaves the student with the email of the names
\* and the new branch, and an edit that is no transfer leaves the email as it
\* was.
C10_EmailFollowsAllocation ==
    /\ RegisteredOk =>
          last.ret.email = ExpectedEmail(last.ret.first_name, last.ret.last_name,
                                         last.ret.prn, last.ret.branch)
    /\ Transferred =>
          last.ret.email = ExpectedEmail(last.ret.first_name, last.ret.last_name,
                                         last.ret.prn, last.ret.branch)
    /\ (EditedOk /\ ~Transferred) => last.ret.email = Old.email

\* C10 amended: the email is derive_email of the names, prn and branch given
\* at registration; an edit changes it only when the updates carry an email
\* key, and then to that value: a name change and a branch transfer leave it
\* as it was; no call changes another student's email.
C10_EmailSetAtRegistration ==
    /\ RegisteredOk =>
          last.ret.email = ExpectedEmail(last.ret.first_name, last.ret.last_name,
                                         last.ret.prn, last.arg.branch)
    /\ EditedOk =>
          last.ret.email = IF "email" \in DOMAIN last.arg
                           THEN last.arg["email"] ELSE Old.email
    /\ \A r \in students :
          \/ r \in pre.students
          \/ last.result = "ok" /\ r = last.ret

\* A transferred student still has the email of the old branch.
C10_Witness ==
    /\ Transferred
    /\ last.ret.email = Old.email
    /\ last.ret.email # ExpectedEmail(last.ret.first_name, last.ret.last_name,
                                      last.ret.prn, last.ret.branch)

----------------------------------------------------------------------------
(* C11..C20 *)

\* C11: an edit_student or delete_student of a stored student that is given
\* an editor_branch (anything but None) which is not the student's branch,
\* letter case aside, fails with PermissionError and leaves the table and
\* next_prn as they were.
C11_OtherBranchRejected ==
    ( /\ last.op \in {"edit", "delete"}
      /\ call.prn \in Prns(pre.students)
      /\ call.editor # NoEditor
      /\ Upper(call.editor) # Upper(Target.branch) )
        => /\ last.result = "PermissionError"
           /\ students = pre.students
           /\ next_prn = pre.next_prn

\* C12: a register_student whose username is, letter case aside, that of a
\* stored student fails with "Username already exists", adds no record and
\* leaves next_prn as it was; no two stored students share a username,
\* letter case aside.
C12_TakenUsernameRejected ==
    /\ ( /\ last.op = "register"
          /\ \E r \in pre.students :
                Lower(r.username) = Lower(last.arg.username) )
          => /\ last.result = "ValueError_username_exists"
             /\ students = pre.students
             /\ next_prn = pre.next_prn
    /\ \A r1, r2 \in students :
          Lower(r1.username) = Lower(r2.username) => r1 = r2

\* A stored username typed in another letter case was rejected.
C12_Witness ==
    /\ last.op = "register"
    /\ last.result = "ValueError_username_exists"
    /\ \E r \in students :
          /\ r.username # last.arg.username
          /\ r.username = Lower(last.arg.username)
    /\ Cardinality(students) >= 2

\* C13: a register_student with an empty or blank username, password,
\* first_name, last_name or branch fails with "... cannot be empty", creates
\* no record and leaves next_prn as it was.
C13_BlankFieldRejected ==
    ( /\ last.op = "register"
      /\ \/ ~IsNonEmpty(last.arg.username)
         \/ ~IsNonEmpty(call.password)
         \/ ~IsNonEmpty(call.first_name)
         \/ ~IsNonEmpty(call.last_name)
         \/ ~IsNonEmpty(last.arg.branch) )
        => /\ last.result = "ValueError_empty"
           /\ students = pre.students
           /\ next_prn = pre.next_prn

\* C14: a successful delete_student(prn) removes the row with that prn and
\* no other: the count of its (branch, division) drops by one, every other
\* row is as it was, and so is next_prn; a delete_student or edit_student of
\* a prn that is not stored fails with "Student not found" and changes
\* nothing.
C14_DeleteRemovesExactlyOne ==
    /\ DeletedOk =>
          /\ call.prn \in Prns(pre.students)
          /\ students = pre.students \ {Target}
          /\ Count(students, Target.branch, Target.division)
                = Count(pre.students, Target.branch, Target.division) - 1
          /\ \A r \in pre.students : r.prn # call.prn => r \in students
          /\ next_prn = pre.next_prn
    /\ (last.op \in {"edit", "delete"} /\ call.prn \notin Prns(pre.students))
          => /\ last.result = "ValueError_not_found"
             /\ students = pre.students
             /\ next_prn = pre.next_prn

\* A student was deleted from a division in which another one stays.
C14_Witness ==
    /\ DeletedOk
    /\ \E r \in students :
          r.branch = Target.branch /\ r.division = Target.division

\* C15: when both callers have run get_next_prn, each statement at a time,
\* they hold different PRNs and next_prn is two more than it was.
C15_ConcurrentPrnsDiffer ==
    (\A p \in Procs : proc[p].prn # <<>>)
        => /\ proc[1].prn # proc[2].prn
           /\ StrToInt(next_prn) = StrToInt(pre.next_prn) + 2

\* C16: of two register_student calls for one branch that run at the same
\* time, each statement at a time, those that succeed have different PRNs
\* and different class rolls, each has its row in the table, and no division
\* of the branch ends with more than MAX_PER_DIVISION students.
C16_NoDoubleSuccess ==
    LET ok == {p \in Procs : proc[p].result = "ok"}
    IN  /\ \A p, q \in ok :
              p # q => /\ proc[p].prn # proc[q].prn
                       /\ proc[p].class_roll # proc[q].class_roll
        /\ \A p \in ok :
              \E r \in students : /\ r.prn = proc[p].prn
                                  /\ r.class_roll = proc[p].class_roll
                                  /\ r.division = proc[p].division
        /\ \A d \in DivisionSet :
              Count(students, Upper(ConcBranch), d) <= MAX_PER_DIVISION

\* Both callers read the same counts, chose the same division and the same
\* class roll; one insert succeeded, the other was rejected.
C16_Witness ==
    /\ proc[1].result = "ok"
    /\ proc[2].result = "IntegrityError"
    /\ proc[1].division = proc[2].division
    /\ proc[1].class_roll = proc[2].class_roll
    /\ proc[1].prn # proc[2].prn

\* C17: get_student_profile leaves the table and next_prn as they were, the
\* same call made again on the store it left returns what it returned, and
\* what it returns has neither salt nor pw_hash.
C17_ProfileIsPureRead ==
    last.op = "profile" =>
        /\ students = pre.students
        /\ next_prn = pre.next_prn
        /\ get_student_profile(Db(students, next_prn), last.arg).ret = last.ret
        /\ last.ret # NoRec =>
              /\ "salt" \notin DOMAIN last.ret
              /\ "pw_hash" \notin DOMAIN last.ret
              /\ \E r \in students :
                    /\ last.arg \in {r.prn, r.class_roll}
                    /\ \A k \in (DOMAIN r) \ {"salt", "pw_hash", "extra"} :
                          last.ret[k] = r[k]

\* The profile of a student whose extra was edited, found by class roll.
C17_Witness ==
    /\ last.op = "profile"
    /\ last.ret # NoRec
    /\ last.arg = last.ret.class_roll
    /\ last.ret.extra # EmptyDict

\* C18: with registrations only, from an empty store, the k-th student
\* registered into a branch (1 <= k <= 3 * MAX_PER_DIVISION) sits in
\* division ceil(k / MAX_PER_DIVISION) with sequence number
\* ((k - 1) mod MAX_PER_DIVISION) + 1; a successful registration returns
\* the record of the newest student of its branch.
C18_SequentialFill ==
    /\ \A r \in students :
          LET k == Rank(r)
          IN  /\ k <= FullCount
              /\ r.division = DIVISIONS[((k - 1) \div MAX_PER_DIVISION) + 1]
              /\ r.class_roll =
                    ExpectedRoll(r.branch, r.division,
                                 ((k - 1) % MAX_PER_DIVISION) + 1)
    /\ RegisteredOk =>
          /\ last.ret \in students
          /\ Rank(last.ret) = Cardinality({q \in students : q.branch = last.ret.branch})

\* The last seat of a branch was given out: the 3 * MAX_PER_DIVISION-th
\* registrant sits in the last division, while the other branch has
\* students too.
C18_Witness ==
    /\ RegisteredOk
    /\ Rank(last.ret) = FullCount
    /\ last.ret.division = DIVISIONS[Len(DIVISIONS)]
    /\ \E r \in students : r.branch # last.ret.branch

\* C19: the class roll of every stored student is the first two characters
\* of its branch in upper case, then its division, then a two-digit sequence
\* number between 1 and MAX_PER_DIVISION.
C19_ClassRollConsistent ==
    \A r \in students :
        /\ r.division \in DivisionSet
        /\ \E n \in 1..MAX_PER_DIVISION :
              r.class_roll = ExpectedRoll(Upper(r.branch), r.division, n)

\* A student holds a class roll given by a transfer, next to students
\* whose class rolls were given at registration.
C19_Witness ==
    /\ Transferred
    /\ Cardinality(students) >= 2
    /\ last.ret \in students
    /\ last.ret.class_roll[1] # Old.class_roll[1]

\* C20: an edit_student leaves next_prn and the rows of all other students
\* as they were; when it succeeds the student's prn, username, salt and
\* pw_hash are unchanged, first_name, last_name and email are the values
\* given for them in the updates (unchanged where none is given), extra is
\* unchanged unless given, keys outside the allow-list change nothing, and
\* branch, division and class_roll are unchanged unless branch is among the
\* updates; when it fails the table is unchanged.
C20_EditFrame ==
    last.op = "edit" =>
        /\ next_prn = pre.next_prn
        /\ \A r \in pre.students : r.prn # call.prn => r \in students
        /\ \A r \in students : r.prn # call.prn => r \in pre.students
        /\ last.result # "ok" => students = pre.students
        /\ last.result = "ok" =>
              LET n == last.ret
                  o == Target
              IN  /\ students = (pre.students \ {o}) \cup {n}
                  /\ \A k \in {"prn", "username", "salt", "pw_hash"} : n[k] = o[k]
                  /\ \A k \in {"first_name", "last_name", "email"} :
                        n[k] = IF k \in DOMAIN last.arg THEN last.arg[k] ELSE o[k]
                  /\ "extra" \notin DOMAIN last.arg => n.extra = o.extra
                  /\ "branch" \notin DOMAIN last.arg =>
                        /\ n.branch = o.branch
                        /\ n.division = o.division
                        /\ n.class_roll = o.class_roll

\* An edit that was given a prn and a username next to a first name
\* changed the first name only.
C20_Witness ==
    /\ EditedOk
    /\ {"prn", "username", "first_name"} \subseteq DOMAIN last.arg
    /\ last.ret.prn # last.arg["prn"]
    /\ last.ret.username # last.arg["username"]
    /\ last.ret.first_name = last.arg["first_name"]
    /\ last.ret.first_name # Target.first_name

----------------------------------------------------------------------------
(* C21..C24 *)

\* C21: an authorized edit_student of a stored student whose updates change
\* the branch to one with every division at capacity fails with "All
\* divisions for this branch are full" and leaves the table, hence the
\* student's row with every field of the update, and next_prn as they were.
C21_TransferToFullBranchRejected ==
    ( /\ last.op = "edit"
      /\ Authorized
      /\ "branch" \in DOMAIN last.arg
      /\ BranchFull(pre.students, Upper(last.arg["branch"])) )
        => /\ last.result = "ValueError_all_full"
           /\ Target \in students
           /\ students = pre.students
           /\ next_prn = pre.next_prn

\* A student of another branch was refused a transfer into the full branch,
\* in an update that carried a new first name too.
C21_Witness ==
    /\ last.op = "edit"
    /\ Authorized
    /\ "first_name" \in DOMAIN last.arg
    /\ last.arg["first_name"] # Target.first_name
    /\ BranchFull(pre.students, Upper(last.arg["branch"]))
    /\ Target.branch # Upper(last.arg["branch"])
    /\ last.result = "ValueError_all_full"

\* C22: after any registrations, deletions and transfers, a register_student
\* with a usable username into a branch that has a division below capacity
\* succeeds, and a register_student with a usable username fails only with
\* "All divisions for this branch are full".
C22_RegisterSucceedsBelowCapacity ==
    (last.op = "register" /\ UsableUsername(pre.students, last.arg.username))
        => /\ ~BranchFull(pre.students, Upper(last.arg.branch))
                 => last.result = "ok"
           /\ last.result \in {"ok", "ValueError_all_full"}

\* C23: a register_student with a usable username into branch B ends as the
\* same call ends on a store that holds the students of branch B only: the
\* same success or failure, and on success the same division and class
\* roll; so too when another branch begins with B's first two letters.
C23_BranchesIndependent ==
    (last.op = "register" /\ UsableUsername(pre.students, last.arg.username))
        => LET B     == Upper(Strip(last.arg.branch))
               own   == {r \in pre.students : r.branch = B}
               alone == register_student(Db(own, pre.next_prn),
                                         last.arg.username,
                                         CHOOSE pw \in Passwords : TRUE,
                                         CHOOSE fn \in FirstNames : TRUE,
                                         CHOOSE ln \in LastNames : TRUE,
                                         last.arg.branch, EmptyDict,
                                         CHOOSE salt \in Salts : TRUE)
           IN  /\ last.result = alone.result
               /\ last.result = "ok" =>
                     /\ last.ret.division = alone.ret.division
                     /\ last.ret.class_roll = alone.ret.class_roll

\* C24: an authorized edit_student of a stored student whose updates hold no
\* allow-listed key ends without error and returns the student's row, which
\* is as it was, as is the table.
C24_NoAllowedKeyIsNoOp ==
    ( /\ last.op = "edit"
      /\ Authorized
      /\ (DOMAIN last.arg) \cap allowed = {} )
        => /\ last.result = "ok"
           /\ last.ret = Target
           /\ students = pre.students

====
